---- MODULE Spec2Model ----
(***************************************************************************)
(* Model of twstock_correlation: the batched price fetch, the correlation  *)
(* ranking and the two-stock comparison of stock_utils.py, and the         *)
(* once-only start of the background scheduler of scheduler_config.py.     *)
(*                                                                         *)
(* Dates are day numbers (days since 1970-01-01).  A nullable float is a   *)
(* sequence of length 0 (NaN / None) or 1 (<<v>>).  Closes are in tenths of *)
(* a currency unit; a price ratio and its moving averages are exact rationals *)
(* [num, den] in lowest terms.  The numeric value of a Pearson correlation *)
(* (pandas.Series.corr) of two varying legs is an input of the model, in   *)
(* units of 10^-5, and so is the rounding error of the float mean of a     *)
(* constant leg, by window; what a constant leg gives is computed from it. *)
(***************************************************************************)
EXTENDS Integers, Sequences, FiniteSets, TLC

VARIABLES
    op,         \* the operation whose outcome the data state holds
    args,       \* its arguments
    world,      \* what the price provider holds and does while it runs
    result,     \* its outcome
    requests,   \* provider requests attempted by it
    pc,         \* scheduler_config: position of each thread in the module body
                \* (line 34) and in _start_scheduler
    moduleOf,   \* scheduler_config: the module object whose function a thread runs
    sysModule,  \* scheduler_config: the module object in sys.modules (0: none)
    importer,   \* scheduler_config: the thread executing the module body (0: none)
    lockHolder, \* scheduler_config: holder of _lock of each module object (0: free)
    schedulerStarted, \* scheduler_config: _scheduler_started of each module object
    created,    \* scheduler_config: BackgroundScheduler objects created, by module object
    running,    \* scheduler_config: schedulers started (scheduler.start()), by module object
    nCalls,     \* scheduler_config: calls of _start_scheduler made so far, the
                \* call of line 35 counted when its import begins
    executions  \* scheduler_config: times the module body has been executed

dataVars == <<op, args, world, result, requests>>
schedVars == <<pc, moduleOf, sysModule, importer, lockHolder, schedulerStarted,
               created, running, nCalls, executions>>
vars == <<op, args, world, result, requests, pc, moduleOf, sysModule, importer,
          lockHolder, schedulerStarted, created, running, nCalls, executions>>

\* ------------------------------------------------------------------------
\* Bounds of the model
\* ------------------------------------------------------------------------
NThreads == 3
MaxCalls == 4
MaxExecutions == 2
PMax == 4

\* ------------------------------------------------------------------------
\* Program constants
\* ------------------------------------------------------------------------
W20 == 20
W60 == 60
W120 == 120
MinPairObs == 10
RankDaysBack == 210
MinDaysBack == 180
DaysBuffer == 60

\* datetime.datetime.today(): the day the requests are made (2026-10-30)
Today == 20756

NaN == <<>>
Some(v) == <<v>>
IsNaN(x) == x = <<>>

Min(a, b) == IF a < b THEN a ELSE b
Max(a, b) == IF a > b THEN a ELSE b

\* ------------------------------------------------------------------------
\* Calendar
\* ------------------------------------------------------------------------
\* 0 = Monday .. 6 = Sunday (day 0, 1970-01-01, is a Thursday)
Weekday(d) == (d + 3) % 7
IsTradingDay(d) == Weekday(d) < 5

\* the k-th most recent trading day, k = 1 being the last one not after Today
LastTradingDay == IF Weekday(Today) < 5 THEN Today ELSE Today - (Weekday(Today) - 4)
NthTradingDayBack(k) ==
    LET j == k - 1
        wd == Weekday(LastTradingDay)
    IN LastTradingDay - j - 2 * ((j + (4 - wd)) \div 5)

\* strftime("%m/%d"): month and day of a day number (proleptic Gregorian)
MonthDay(d) ==
    LET z == d + 719468
        era == z \div 146097
        doe == z - era * 146097
        yoe == (doe - doe \div 1460 + doe \div 36524 - doe \div 146096) \div 365
        doy == doe - (365 * yoe + yoe \div 4 - yoe \div 100)
        mp == (5 * doy + 2) \div 153
        day == doy - (153 * mp + 2) \div 5 + 1
        month == IF mp < 10 THEN mp + 3 ELSE mp - 9
    IN <<month, day>>

\* ------------------------------------------------------------------------
\* Catalog (twstock.codes)
\* ------------------------------------------------------------------------
Sids == {"T", "A", "B", "C"}
\* "A" and "T" are listed, "B" trades over the counter, "C" is not in the catalog
CatalogMarket(sid) ==
    CASE sid = "B" -> "OTC"
      [] sid = "C" -> "none"
      [] OTHER -> "listed"

_to_yf_ticker(sid) ==
    IF CatalogMarket(sid) = "OTC" THEN <<sid, "TWO">> ELSE <<sid, "TW">>

\* twstock.codes[sid].name if sid in twstock.codes else sid
get_stock_name(sid) ==
    CASE sid = "T" -> "Tname"
      [] sid = "A" -> "Aname"
      [] sid = "B" -> "Bname"
      [] OTHER -> sid

\* ------------------------------------------------------------------------
\* once-only start of the scheduler (scheduler_config.py)
\* ------------------------------------------------------------------------
Threads == 1..NThreads

\* the module objects: every execution of the module body builds one, with
\* its own _scheduler_started (line 7) and _lock (line 8)
Modules == 1..MaxExecutions

\* the thread is neither in the module body nor inside _start_scheduler
Outside(t) == pc[t] \in {"idle", "returned", "done", "raised"}

\* the thread's step ends its call, or raises in line 34.  When the thread is
\* the one executing the module body the execution ends with it: the import
\* succeeds, or the exception leaves the import and the module object is
\* removed from sys.modules
EndCall(t, raises) ==
    /\ importer' = IF importer = t THEN 0 ELSE importer
    /\ sysModule' = IF importer = t /\ raises THEN 0 ELSE sysModule

\* a thread calls _start_scheduler of the module in sys.modules; the module
\* is there, with its function, while its body still stands at line 34
Call(t) ==
    /\ Outside(t)
    /\ sysModule # 0
    /\ nCalls < MaxCalls
    /\ nCalls' = nCalls + 1
    /\ moduleOf' = [moduleOf EXCEPT ![t] = sysModule]
    /\ pc' = [pc EXCEPT ![t] = "call"]
    /\ UNCHANGED <<sysModule, importer, lockHolder,
                   schedulerStarted, created, running, executions>>
    /\ UNCHANGED dataVars

\* with _lock:  (acquire)
Acquire(t) ==
    /\ pc[t] = "call"
    /\ lockHolder[moduleOf[t]] = 0
    /\ lockHolder' = [lockHolder EXCEPT ![moduleOf[t]] = t]
    /\ pc' = [pc EXCEPT ![t] = "check"]
    /\ UNCHANGED <<moduleOf, sysModule, importer, schedulerStarted,
                   created, running, nCalls, executions>>
    /\ UNCHANGED dataVars

\* line 22: if _scheduler_started, read as True
CheckStarted(t) ==
    /\ pc[t] = "check"
    /\ schedulerStarted[moduleOf[t]]
    /\ pc' = [pc EXCEPT ![t] = "return"]
    /\ UNCHANGED <<moduleOf, sysModule, importer, lockHolder,
                   schedulerStarted, created, running, nCalls, executions>>
    /\ UNCHANGED dataVars

\* line 22: if _scheduler_started, read as False
PassCheck(t) ==
    /\ pc[t] = "check"
    /\ ~schedulerStarted[moduleOf[t]]
    /\ pc' = [pc EXCEPT ![t] = "set"]
    /\ UNCHANGED <<moduleOf, sysModule, importer, lockHolder,
                   schedulerStarted, created, running, nCalls, executions>>
    /\ UNCHANGED dataVars

\* line 23: return; leaving the with block releases the lock
ReturnEarly(t) ==
    /\ pc[t] = "return"
    /\ lockHolder' = [lockHolder EXCEPT ![moduleOf[t]] = 0]
    /\ pc' = [pc EXCEPT ![t] = "returned"]
    /\ EndCall(t, FALSE)
    /\ UNCHANGED <<moduleOf, schedulerStarted, created,
                   running, nCalls, executions>>
    /\ UNCHANGED dataVars

\* line 24 left out: the flag is not set
SetStartedMutant(t) ==
    /\ pc[t] = "set"
    /\ schedulerStarted' = [schedulerStarted EXCEPT ![moduleOf[t]] = FALSE]
    /\ pc' = [pc EXCEPT ![t] = "release"]
    /\ UNCHANGED <<moduleOf, sysModule, importer, lockHolder,
                   created, running, nCalls, executions>>
    /\ UNCHANGED dataVars

\* line 24: _scheduler_started = True
SetStarted(t) ==
    /\ pc[t] = "set"
    /\ schedulerStarted' = [schedulerStarted EXCEPT ![moduleOf[t]] = TRUE]
    /\ pc' = [pc EXCEPT ![t] = "release"]
    /\ UNCHANGED <<moduleOf, sysModule, importer, lockHolder,
                   created, running, nCalls, executions>>
    /\ UNCHANGED dataVars

\* end of the with block: the lock is released
Release(t) ==
    /\ pc[t] = "release"
    /\ lockHolder' = [lockHolder EXCEPT ![moduleOf[t]] = 0]
    /\ pc' = [pc EXCEPT ![t] = "create"]
    /\ UNCHANGED <<moduleOf, sysModule, importer, schedulerStarted,
                   created, running, nCalls, executions>>
    /\ UNCHANGED dataVars

\* from apscheduler... import BackgroundScheduler; scheduler = BackgroundScheduler()
CreateScheduler(t) ==
    /\ pc[t] = "create"
    /\ created' = [created EXCEPT ![moduleOf[t]] = @ + 1]
    /\ pc' = [pc EXCEPT ![t] = "add_job"]
    /\ UNCHANGED <<moduleOf, sysModule, importer, lockHolder,
                   schedulerStarted, running, nCalls, executions>>
    /\ UNCHANGED dataVars

\* the import of apscheduler fails: the exception leaves _start_scheduler
ImportFails(t) ==
    /\ pc[t] = "create"
    /\ pc' = [pc EXCEPT ![t] = "raised"]
    /\ EndCall(t, TRUE)
    /\ UNCHANGED <<moduleOf, lockHolder, schedulerStarted,
                   created, running, nCalls, executions>>
    /\ UNCHANGED dataVars

\* scheduler.add_job(_update_twstock, "cron", hour=6, minute=0)
AddJob(t) ==
    /\ pc[t] = "add_job"
    /\ pc' = [pc EXCEPT ![t] = "start"]
    /\ UNCHANGED <<moduleOf, sysModule, importer, lockHolder,
                   schedulerStarted, created, running, nCalls, executions>>
    /\ UNCHANGED dataVars

\* scheduler.add_job raises (the trigger is not found): the exception leaves
\* _start_scheduler, the scheduler created is never started
AddJobFails(t) ==
    /\ pc[t] = "add_job"
    /\ pc' = [pc EXCEPT ![t] = "raised"]
    /\ EndCall(t, TRUE)
    /\ UNCHANGED <<moduleOf, lockHolder, schedulerStarted,
                   created, running, nCalls, executions>>
    /\ UNCHANGED dataVars

\* scheduler.start()
StartScheduler(t) ==
    /\ pc[t] = "start"
    /\ running' = [running EXCEPT ![moduleOf[t]] = @ + 1]
    /\ pc' = [pc EXCEPT ![t] = "done"]
    /\ EndCall(t, FALSE)
    /\ UNCHANGED <<moduleOf, lockHolder, schedulerStarted,
                   created, nCalls, executions>>
    /\ UNCHANGED dataVars

\* scheduler.start() raises (its thread cannot be started): the exception
\* leaves _start_scheduler, and no scheduler thread runs
StartFails(t) ==
    /\ pc[t] = "start"
    /\ pc' = [pc EXCEPT ![t] = "raised"]
    /\ EndCall(t, TRUE)
    /\ UNCHANGED <<moduleOf, lockHolder, schedulerStarted,
                   created, running, nCalls, executions>>
    /\ UNCHANGED dataVars

\* line 34: threading.Thread(target=_update_twstock, daemon=True).start()
\* starts the thread of the first update; line 35 then calls _start_scheduler
StartUpdateThread(t) ==
    /\ pc[t] = "line34"
    /\ pc' = [pc EXCEPT ![t] = "call"]
    /\ UNCHANGED <<moduleOf, sysModule, importer, lockHolder,
                   schedulerStarted, created, running, nCalls, executions>>
    /\ UNCHANGED dataVars

\* line 34 raises (the thread cannot be started): the import ends before the
\* call of line 35 and the module object is removed from sys.modules
UpdateThreadFails(t) ==
    /\ pc[t] = "line34"
    /\ pc' = [pc EXCEPT ![t] = "raised"]
    /\ EndCall(t, TRUE)
    /\ UNCHANGED <<moduleOf, lockHolder, schedulerStarted,
                   created, running, nCalls, executions>>
    /\ UNCHANGED dataVars

\* import scheduler_config (app.py, on every run of the script) when the
\* module is not in sys.modules because the import before it raised: the
\* module body is executed in a new module object that is put in sys.modules,
\* lines 7 and 8 give it its own flag and lock, lines 11 and 19 its
\* functions, and the importer stands at line 34.  While the module is in
\* sys.modules an import executes nothing.
ImportAgain(t) ==
    /\ Outside(t)
    /\ sysModule = 0
    /\ importer = 0
    /\ executions < MaxExecutions
    /\ nCalls < MaxCalls
    /\ executions' = executions + 1
    /\ nCalls' = nCalls + 1
    /\ sysModule' = executions + 1
    /\ importer' = t
    /\ moduleOf' = [moduleOf EXCEPT ![t] = executions + 1]
    /\ schedulerStarted' = [schedulerStarted EXCEPT ![executions + 1] = FALSE]
    /\ lockHolder' = [lockHolder EXCEPT ![executions + 1] = 0]
    /\ pc' = [pc EXCEPT ![t] = "line34"]
    /\ UNCHANGED <<created, running>>
    /\ UNCHANGED dataVars

\* the state after lines 7 to 19 of the first execution of the module: the
\* module is in sys.modules with its flag, lock and functions, and thread 1,
\* which imports it, stands at line 34
SchedInit ==
    /\ pc = [t \in Threads |-> IF t = 1 THEN "line34" ELSE "idle"]
    /\ moduleOf = [t \in Threads |-> 1]
    /\ sysModule = 1
    /\ importer = 1
    /\ lockHolder = [m \in Modules |-> 0]
    /\ schedulerStarted = [m \in Modules |-> FALSE]
    /\ created = [m \in Modules |-> 0]
    /\ running = [m \in Modules |-> 0]
    /\ nCalls = 1
    /\ executions = 1

SchedNext ==
    \E t \in Threads :
        \/ Call(t)
        \/ Acquire(t)
        \/ CheckStarted(t)
        \/ PassCheck(t)
        \/ ReturnEarly(t)
        \/ SetStarted(t)
        \/ Release(t)
        \/ CreateScheduler(t)
        \/ ImportFails(t)
        \/ AddJob(t)
        \/ AddJobFails(t)
        \/ StartScheduler(t)
        \/ StartFails(t)
        \/ StartUpdateThread(t)
        \/ UpdateThreadFails(t)
        \/ ImportAgain(t)

\* ------------------------------------------------------------------------
\* Values
\* ------------------------------------------------------------------------
\* the element of a one-element set; Only({e(x) : x \in {v}}) is e with x
\* bound to the value of v, computed once
Only(S) == CHOOSE x \in S : TRUE

\* a function over 1..n as a sequence value
AsSeq(f) == f \o <<>>

SeqToSet(s) == {s[i] : i \in 1..Len(s)}

Reverse(s) == Only({AsSeq([i \in 1..Len(x) |-> x[Len(x) + 1 - i]]) : x \in {s}})

\* s[:k]: the first k elements, or all but the last -k when k is negative
HeadN(s, k) ==
    Only({IF k >= 0 THEN SubSeq(x, 1, Min(k, Len(x)))
          ELSE SubSeq(x, 1, Max(0, Len(x) + k)) : x \in {s}})
\* .tail(k): the last k rows, none when k = 0, all but the first -k when k is
\* negative
TailN(s, k) ==
    Only({IF k >= 0 THEN SubSeq(x, Max(1, Len(x) - k + 1), Len(x))
          ELSE SubSeq(x, Min(0 - k, Len(x)) + 1, Len(x)) : x \in {s}})

\* ------------------------------------------------------------------------
\* Exact rationals (price ratio, moving averages)
\* ------------------------------------------------------------------------
RECURSIVE Gcd(_, _)
Gcd(a, b) == IF b = 0 THEN a ELSE Gcd(b, a % b)

RatNorm(n, d) == Only({[num |-> n \div g, den |-> d \div g] : g \in {Gcd(n, d)}})
RatAdd(r, q) == RatNorm(r.num * q.den + q.num * r.den, r.den * q.den)

\* a // b instead of a / b
FloorDiv(a, b) == [num |-> a \div b, den |-> 1]

\* merged[col1] / merged[col2]
TrueDiv(a, b) == RatNorm(a, b)

\* ------------------------------------------------------------------------
\* The price provider (yfinance.download), an external collaborator
\* ------------------------------------------------------------------------
SidNo(sid) == CASE sid = "T" -> 1 [] sid = "A" -> 2 [] sid = "B" -> 3 [] OTHER -> 5

\* the close the provider holds for an instrument on a day, in tenths of a
\* currency unit: a halted instrument (flat) repeats one close (617 is 61.7),
\* the others move over whole amounts
Price(w, sid, d) ==
    IF w.hist[sid].flat THEN w.hist[sid].close
    ELSE 10 * (1 + ((((d - 20000) * (d - 20000)) \div (6 + SidNo(sid)) + d * SidNo(sid))
                      % PMax))

\* the provider has a close for sid on day d: the cnt trading days that end
\* skip trading days before the last one
HasClose(w, sid, d) ==
    /\ w.hist[sid].col = "present"
    /\ w.hist[sid].cnt > 0
    /\ IsTradingDay(d)
    /\ NthTradingDayBack(w.hist[sid].skip + w.hist[sid].cnt) <= d
    /\ d <= NthTradingDayBack(w.hist[sid].skip + 1)

\* the days of start..end on which a requested ticker traded, in the order
\* the provider lists them
ResponseIndex(w, tickers, start, end) ==
    Only({IF w.layout = "desc" THEN Reverse(asc) ELSE asc :
          asc \in {SelectSeq([i \in 1..(end - start + 1) |-> start + i - 1],
                             LAMBDA d : \E tk \in tickers : HasClose(w, tk[1], d))}})

\* the Close column of a ticker: NaN on the days it has no close
Column(w, sid, index) ==
    AsSeq([i \in 1..Len(index) |->
             IF HasClose(w, sid, index[i]) THEN Some(Price(w, sid, index[i])) ELSE NaN])

\* yf.download(tickers, start, end, group_by="ticker"): one row per day on
\* which a requested ticker traded, one Close column per ticker the provider
\* answers for; flat columns when one ticker is requested
Download(w, tickers, start, end) ==
    IF w.fail THEN [raised |-> TRUE]
    ELSE Only({
        IF Cardinality(tickers) = 1
        THEN [raised |-> FALSE, index |-> index,
              cols |-> [c \in {"Close" : tk \in answered} |->
                          Column(w, (CHOOSE tk \in answered : TRUE)[1], index)]]
        ELSE [raised |-> FALSE, index |-> index,
              cols |-> [c \in {<<tk, "Close">> : tk \in answered} |->
                          Column(w, c[1][1], index)]] :
        index \in {ResponseIndex(w, tickers, start, end)},
        answered \in {{tk \in tickers : w.hist[tk[1]].col = "present"}}})

\* df.empty
DfEmpty(df) == Len(df.index) = 0 \/ DOMAIN df.cols = {}

\* ------------------------------------------------------------------------
\* fetch_stocks_prices
\* ------------------------------------------------------------------------
\* pd.DataFrame({"date": df.index, "close": closes.values})
MakeFrame(index, closes) ==
    AsSeq([i \in 1..Len(index) |-> [date |-> index[i], close |-> closes[i]]])

\* .dropna()
DropNa(rows) == SelectSeq(rows, LAMBDA r : ~IsNaN(r.close))

\* .drop_duplicates(subset=["date"]): the first row of each date is kept
DropDuplicates(rows) ==
    Only({IF Cardinality({x[i].date : i \in 1..Len(x)}) = Len(x) THEN x
          ELSE AsSeq([k \in 1..Len(first) |-> x[first[k]]]) :
          <<x, first>> \in
              {<<y, SelectSeq([i \in 1..Len(y) |-> i],
                              LAMBDA i : \A j \in 1..(i - 1) : y[j].date # y[i].date)>> :
               y \in {rows}}})

\* .sort_values("date"): ascending by date, rows of one date in their order
SortByDate(rows) ==
    Only({IF \A i \in 1..(Len(x) - 1) : x[i].date <= x[i + 1].date THEN x
          ELSE Only({AsSeq([k \in 1..Len(x) |->
                               x[CHOOSE i \in 1..Len(x) : place[i] = k]]) :
                     place \in {AsSeq([i \in 1..Len(x) |->
                         1 + Cardinality({j \in 1..Len(x) :
                               \/ x[j].date < x[i].date
                               \/ (x[j].date = x[i].date /\ j < i)})])}}) :
          x \in {rows}})

\* out.dropna().drop_duplicates(subset=["date"]).sort_values("date"), the
\* closes unwrapped
Normalize(index, closes) ==
    Only({AsSeq([i \in 1..Len(out) |-> [date |-> out[i].date, close |-> out[i].close[1]]]) :
          out \in {SortByDate(DropDuplicates(DropNa(
                      Only({MakeFrame(idx, cl) : idx \in {index}, cl \in {closes}}))))}})

\* the multi-ticker loop: every ticker whose Close column exists gets a key
MultiKeys(sids, df) ==
    {sid \in SeqToSet(sids) : <<_to_yf_ticker(sid), "Close">> \in DOMAIN df.cols}

\* a mapping as a value
AsMap(f) == f @@ <<>>

\* except Exception: raise
FetchFailedReraise == [raised |-> TRUE, requests |-> 1, prices |-> <<>>]

\* except Exception: return {}
FetchFailed == [raised |-> FALSE, requests |-> 1, prices |-> <<>>]

fetch_stocks_prices(w, sids, days_back) ==
    IF sids = <<>> THEN [raised |-> FALSE, requests |-> 0, prices |-> <<>>]
    ELSE Only({
        IF df.raised THEN FetchFailed
        ELSE IF DfEmpty(df) THEN [raised |-> FALSE, requests |-> 1, prices |-> <<>>]
        ELSE IF Len(sids) = 1
        THEN [raised |-> FALSE, requests |-> 1,
              prices |-> AsMap([sid \in {s \in {sids[1]} : "Close" \in DOMAIN df.cols} |->
                                  Normalize(df.index, df.cols["Close"])])]
        ELSE [raised |-> FALSE, requests |-> 1,
              prices |-> AsMap([sid \in MultiKeys(sids, df) |->
                                  Normalize(df.index,
                                            df.cols[<<_to_yf_ticker(sid), "Close">>])])] :
        df \in {Download(w, {_to_yf_ticker(s) : s \in SeqToSet(sids)},
                         Today - days_back, Today)}})

\* ------------------------------------------------------------------------
\* calculate_correlations
\* ------------------------------------------------------------------------
\* get_electronics_stock_codes(): the electronics codes of the catalog, sorted
DefaultCodes == <<"A", "B", "T">>

get_stock_group(sid) == IF CatalogMarket(sid) = "none" THEN "" ELSE "electronics"

\* the closes of rows lo..hi of a frame, by date
RECURSIVE CloseMapOf(_, _, _)
CloseMapOf(rows, lo, hi) ==
    IF lo > hi THEN <<>>
    ELSE IF lo = hi THEN rows[lo].date :> rows[lo].close
    ELSE CloseMapOf(rows, lo, (lo + hi) \div 2) @@ CloseMapOf(rows, (lo + hi) \div 2 + 1, hi)
CloseMap(rows) == Only({CloseMapOf(x, 1, Len(x)) : x \in {rows}})

\* target_df.join(df, how="inner").dropna() and df1.merge(df2, on="date",
\* how="inner"): the left rows whose date the right frame has too, in the
\* order of the left frame
JoinInner(left, right) ==
    Only({AsSeq([i \in 1..Len(both) |->
                   [date |-> both[i].date, a |-> both[i].close, b |-> m[both[i].date]]]) :
          <<m, both>> \in {<<mm, SelectSeq(left, LAMBDA r : r.date \in DOMAIN mm)>> :
                           mm \in {CloseMap(right)}}})

IsConstant(xs) == \A i \in 1..Len(xs) : xs[i] = xs[1]

\* the close x / 10 is a binary fraction: a float holds it, and the sums and
\* the mean of copies of it, exactly
Dyadic(x) == x % 5 = 0

\* the sign (-1, 0, 1) of the float mean of the win values of a constant leg
\* less the value itself.  It depends on the value and on how many copies are
\* summed: for 33.3 the mean of 60 copies is exact, that of 20 is below and
\* that of 120 above; the world supplies it by window (hist.err), and the
\* mean of copies of a binary fraction is exact
MeanError(w, sid, win, xs) == IF Dyadic(xs[1]) THEN 0 ELSE w.hist[sid].err[win]

\* the variance that Series.corr computes for a leg of win values is exactly
\* 0: the leg is constant and the float mean of its values is that value;
\* when the mean differs from it in the last bits the variance is tiny and
\* positive
VarianceIsZero(w, sid, win, xs) ==
    IsConstant(xs) /\ MeanError(w, sid, win, xs) = 0

\* Series.corr (Pearson, numpy.corrcoef) of the win rows of a window: NaN
\* when the computed variance of a leg is 0; about 0 when one leg is constant
\* with a tiny variance; 1 or -1, the product of the signs of the two
\* rounding errors, when both are; else the value the library computes, which
\* the world supplies.  Units of 10^-5.
Pearson(w, target_sid, sid, win, merged) ==
    Only({IF Len(m) < 2 \/ VarianceIsZero(w, target_sid, win, a)
             \/ VarianceIsZero(w, sid, win, b)
          THEN NaN
          ELSE IF IsConstant(a) /\ IsConstant(b)
          THEN Some(100000 * MeanError(w, target_sid, win, a) * MeanError(w, sid, win, b))
          ELSE IF IsConstant(a) \/ IsConstant(b) THEN Some(0)
          ELSE Some(w.corr[sid][win]) :
          <<m, a, b>> \in {<<x, AsSeq([i \in 1..Len(x) |-> x[i].a]),
                               AsSeq([i \in 1..Len(x) |-> x[i].b])>> : x \in {merged}}})

\* round(c, 4): to units of 10^-4 (the supplied values are never half way)
Round4(c) == IF IsNaN(c) THEN NaN ELSE Some((c[1] + 5) \div 10)

\* len(merged) >= win, read as len(merged) > win
HasHorizonStrict(merged, win) == Len(merged) > win

\* ... if len(merged) >= win else None
HasHorizon(merged, win) == Len(merged) >= win

\* the record of a candidate from its frame joined with the target's
RecordOf(w, target_sid, sid, merged) ==
    [sid |-> sid, name |-> get_stock_name(sid),
     c120 |-> Round4(IF HasHorizon(merged, W120)
                     THEN Pearson(w, target_sid, sid, W120, merged) ELSE NaN),
     c20 |-> Round4(IF HasHorizon(merged, W20)
                    THEN Pearson(w, target_sid, sid, W20, TailN(merged, W20)) ELSE NaN),
     c60 |-> Round4(IF HasHorizon(merged, W60)
                    THEN Pearson(w, target_sid, sid, W60, TailN(merged, W60)) ELSE NaN),
     group |-> get_stock_group(sid)]

\* the body of the loop over the candidates: the record of one candidate
\* (<<record>>), or nothing (<<>>) when it is skipped
CandidateRecord(w, prices, target_sid, sid) ==
    IF sid \notin DOMAIN prices \/ Len(prices[sid]) < W20 THEN <<>>
    ELSE Only({IF Len(merged) < W20 THEN <<>> ELSE <<RecordOf(w, target_sid, sid, merged)>> :
               merged \in {TailN(JoinInner(prices[target_sid], prices[sid]), W120)}})

RECURSIVE CollectFrom(_, _, _, _, _)
CollectFrom(w, prices, target_sid, others, i) ==
    IF i > Len(others) THEN <<>>
    ELSE CandidateRecord(w, prices, target_sid, others[i])
         \o CollectFrom(w, prices, target_sid, others, i + 1)

\* a is placed before b by a descending sort with NaN last
Before(a, b) == ~IsNaN(a) /\ (IsNaN(b) \/ a[1] > b[1])

Perms(n) == {p \in [1..n -> 1..n] : \A i, j \in 1..n : i # j => p[i] # p[j]}

\* sort_values("120...", ascending=False), kind="quicksort", which is not
\* stable: descending, the NaN rows last in their original order, rows with
\* equal values in any order
SortOrders(results) ==
    {p \in Perms(Len(results)) :
        \A i, j \in 1..Len(results) : i < j =>
            /\ ~Before(results[p[j]].c120, results[p[i]].c120)
            /\ (IsNaN(results[p[i]].c120) => p[i] < p[j])}

\* the sorted frame: the row labels (index) are the positions before the
\* sort; df.insert(0, "rank", range(1, len(df) + 1))
Ranked(results, p) ==
    AsSeq([i \in 1..Len(results) |->
             [index |-> p[i] - 1, rank |-> i, rec |-> results[p[i]]]])

\* pd.DataFrame([]).sort_values(by) raises KeyError: the frame has no columns
SortEmptyRaises(reqs) == {[raised |-> TRUE, requests |-> reqs, rows |-> <<>>]}

EmptyFrame(reqs) == [raised |-> FALSE, requests |-> reqs, rows |-> <<>>]

\* electronics_codes[:limit] when limit is given and not 0
Limited(electronics_codes, limit) ==
    Only({IF ~IsNaN(limit) /\ limit[1] # 0 THEN HeadN(codes, limit[1]) ELSE codes :
          codes \in {IF IsNaN(electronics_codes) THEN DefaultCodes
                     ELSE electronics_codes[1]}})

\* the frame sorted and ranked, in every order the sort may leave it
SortedFrames(results, reqs) ==
    IF results = <<>> THEN SortEmptyRaises(reqs)
    ELSE {[raised |-> FALSE, requests |-> reqs, rows |-> Ranked(results, p)] :
             p \in SortOrders(results)}

\* after the fetch: the outcomes of the ranking
RankFetched(w, target_sid, others, f) ==
    IF f.raised THEN {[raised |-> TRUE, requests |-> f.requests, rows |-> <<>>]}
    ELSE IF target_sid \notin DOMAIN f.prices \/ Len(f.prices[target_sid]) < W20
    THEN {EmptyFrame(f.requests)}
    ELSE UNION {SortedFrames(results, f.requests) :
                  results \in {CollectFrom(w, f.prices, target_sid, others, 1)}}

\* the outcomes of calculate_correlations (one per order the sort may leave)
calculate_correlations(w, target_sid, electronics_codes, limit) ==
    UNION {IF others = <<>> THEN {EmptyFrame(0)}
           ELSE UNION {RankFetched(w, target_sid, others, f) :
                         f \in {fetch_stocks_prices(w, <<target_sid>> \o others,
                                                    RankDaysBack)}} :
           others \in {SelectSeq(Limited(electronics_codes, limit),
                                 LAMBDA s : s # target_sid)}}

\* ------------------------------------------------------------------------
\* get_two_stocks_comparison
\* ------------------------------------------------------------------------
MaWindows == <<W20, W60, W120>>

\* merged[col].diff()
Diff(xs) == AsSeq([i \in 1..Len(xs) |-> IF i = 1 THEN NaN ELSE Some(xs[i] - xs[i - 1])])

\* the sum of xs[lo..hi]
RECURSIVE RatSum(_, _, _)
RatSum(xs, lo, hi) ==
    IF lo = hi THEN xs[lo]
    ELSE RatAdd(RatSum(xs, lo, (lo + hi) \div 2), RatSum(xs, (lo + hi) \div 2 + 1, hi))

\* the mean of xs[lo..hi]
RatMean(xs, lo, hi) ==
    Only({RatNorm(sum.num, sum.den * (hi - lo + 1)) : sum \in {RatSum(xs, lo, hi)}})

\* merged[ratio].rolling(win).mean(): the mean of the last win values, NaN
\* until win values have been seen
RollingMean(xs, win) ==
    AsSeq([i \in 1..Len(xs) |->
             IF i < win THEN NaN ELSE Some(RatMean(xs, i - win + 1, i))])

\* the frame with its derived columns
WithColumns(rows, ratio, chg1, chg2, wins, ma) ==
    [mas |-> wins,
     rows |-> AsSeq([i \in 1..Len(rows) |->
                [date |-> rows[i].date, a |-> rows[i].a, b |-> rows[i].b,
                 ratio |-> ratio[i], chg1 |-> chg1[i], chg2 |-> chg2[i],
                 ma |-> AsMap([win \in wins |-> ma[win][i]])]])]

\* the derived columns of a joined frame: ratio, the two changes, and the
\* moving average of every window the frame is long enough for
Derive(rows) ==
    Only({Only({WithColumns(x, ratio, chg1, chg2, wins, ma) :
                chg1 \in {Diff([i \in 1..Len(x) |-> x[i].a])},
                chg2 \in {Diff([i \in 1..Len(x) |-> x[i].b])},
                ma \in {AsMap([win \in wins |-> RollingMean(ratio, win)])}}) :
          <<x, ratio, wins>> \in
              {<<y, AsSeq([i \in 1..Len(y) |-> TrueDiv(y[i].a, y[i].b)]),
                 {win \in SeqToSet(MaWindows) : Len(y) >= win}>> : y \in {rows}}})

\* the moving averages computed on the joined frame before .tail(days)
DeriveBeforeCut(joined, days) ==
    Only({[mas |-> d.mas, rows |-> TailN(d.rows, days)] : d \in {Derive(joined)}})

\* .tail(days), then the derived columns of what is left
DeriveAfterCut(joined, days) == Derive(TailN(joined, days))

\* the 10-observation test applied to the joined frame before .tail(days)
TooShortBeforeCut(joined, days) == Len(joined) < MinPairObs

\* merged = ....tail(days); if merged.empty or len(merged) < 10
TooShort(joined, days) ==
    \E merged \in {TailN(joined, days)} : merged = <<>> \/ Len(merged) < MinPairObs

\* detail_data[d] = row_vals for every row in turn: a dict keeps the place
\* of a key's first insertion and the value of its last
DictOf(labels, vals) ==
    IF Cardinality(SeqToSet(labels)) = Len(labels)
    THEN AsSeq([i \in 1..Len(labels) |-> [label |-> labels[i], vals |-> vals[i]]])
    ELSE Only({AsSeq([k \in 1..Len(first) |->
                 [label |-> labels[first[k]],
                  vals |-> vals[CHOOSE j \in 1..Len(labels) :
                                  /\ labels[j] = labels[first[k]]
                                  /\ \A h \in (j + 1)..Len(labels) :
                                        labels[h] # labels[j]]]]) :
               first \in {SelectSeq([i \in 1..Len(labels) |-> i],
                             LAMBDA i : \A j \in 1..(i - 1) : labels[j] # labels[i])}})

\* the row of the types, in the fixed order
DetailTypes(sid1, sid2, mas) ==
    <<[kind |-> "price", of |-> get_stock_name(sid1)],
      [kind |-> "price", of |-> get_stock_name(sid2)],
      [kind |-> "change", of |-> get_stock_name(sid1)],
      [kind |-> "change", of |-> get_stock_name(sid2)],
      [kind |-> "ratio", of |-> ""]>>
    \o (IF W20 \in mas THEN <<[kind |-> "ma20", of |-> ""]>> ELSE <<>>)
    \o (IF W60 \in mas THEN <<[kind |-> "ma60", of |-> ""]>> ELSE <<>>)
    \o (IF W120 \in mas THEN <<[kind |-> "ma120", of |-> ""]>> ELSE <<>>)

\* row_vals of one date
RowVals(r, mas) ==
    <<Some(r.a), Some(r.b), r.chg1, r.chg2, Some(r.ratio)>>
    \o (IF W20 \in mas THEN <<r.ma[W20]>> ELSE <<>>)
    \o (IF W60 \in mas THEN <<r.ma[W60]>> ELSE <<>>)
    \o (IF W120 \in mas THEN <<r.ma[W120]>> ELSE <<>>)

\* the detail table: one value column per date label, newest date first
DetailTable(sid1, sid2, merged) ==
    Only({[types |-> DetailTypes(sid1, sid2, merged.mas),
           cols |-> DictOf(date_strs, vals)] :
          <<date_strs, vals>> \in
              {<<AsSeq([j \in 1..Len(merged_rev) |-> MonthDay(merged_rev[j].date)]),
                 AsSeq([j \in 1..Len(merged_rev) |-> RowVals(merged_rev[j], merged.mas)])>> :
               merged_rev \in {Reverse(merged.rows)}}})

AllAbsent(f) == [raised |-> f.raised, requests |-> f.requests, absent |-> TRUE]

\* the four outputs
Outputs(sid1, sid2, f, merged) ==
    [raised |-> FALSE, requests |-> f.requests, absent |-> FALSE,
     price_df |-> AsSeq([i \in 1..Len(merged.rows) |->
                     [date |-> merged.rows[i].date, a |-> merged.rows[i].a,
                      b |-> merged.rows[i].b]]),
     ratio_df |-> AsSeq([i \in 1..Len(merged.rows) |->
                     [date |-> merged.rows[i].date, ratio |-> merged.rows[i].ratio]]),
     merged |-> merged,
     detail |-> DetailTable(sid1, sid2, merged)]

\* after the fetch
Compared(sid1, sid2, days, f) ==
    IF f.raised \/ sid1 \notin DOMAIN f.prices \/ sid2 \notin DOMAIN f.prices
    THEN AllAbsent(f)
    ELSE Only({IF TooShort(joined, days) THEN AllAbsent(f)
               ELSE Only({Outputs(sid1, sid2, f, merged) :
                          merged \in {DeriveAfterCut(joined, days)}}) :
               joined \in {SortByDate(JoinInner(f.prices[sid1], f.prices[sid2]))}})

get_two_stocks_comparison(w, sid1, sid2, days) ==
    Only({Compared(sid1, sid2, days, f) :
          f \in {fetch_stocks_prices(w, <<sid1, sid2>>,
                                     Max(MinDaysBack, days + DaysBuffer))}})

\* ------------------------------------------------------------------------
\* The inputs: what the provider holds, and the calls made
\* ------------------------------------------------------------------------
\* the rounding error of the float mean of 20, 60 and 120 copies of a close:
\* the sign of the mean less the close
Err(e20, e60, e120) ==
    [win \in SeqToSet(MaWindows) |->
        IF win = W20 THEN e20 ELSE IF win = W60 THEN e60 ELSE e120]
NoErr == Err(0, 0, 0)

Omitted == [col |-> "omitted", skip |-> 0, cnt |-> 0, flat |-> FALSE, close |-> 0,
            err |-> NoErr]
AllNaN == [col |-> "present", skip |-> 0, cnt |-> 0, flat |-> FALSE, close |-> 0,
           err |-> NoErr]
Cov(skip, cnt) == [col |-> "present", skip |-> skip, cnt |-> cnt, flat |-> FALSE,
                   close |-> 0, err |-> NoErr]
\* a halted instrument: one close on every day, and the rounding errors of
\* the float means of copies of that close
Flat(skip, cnt, close, err) ==
    [col |-> "present", skip |-> skip, cnt |-> cnt, flat |-> TRUE, close |-> close,
     err |-> err]

\* the rounding errors numpy's pairwise summation leaves for 33.3, 61.7 and
\* 61.3 (20, 60 and 120 copies)
Err333 == Err(0 - 1, 0, 1)
Err617 == Err(1, 0 - 1, 1)
Err613 == Err(0 - 1, 1, 0 - 1)

\* the correlations the library computes against the target, by candidate and
\* window, in units of 10^-5
Oracle(vA, vB, vC) ==
    [s \in Sids |-> [win \in SeqToSet(MaWindows) |->
        IF win = W120 THEN (CASE s = "A" -> vA [] s = "B" -> vB [] OTHER -> vC)
        ELSE IF win = W60 THEN 0 - 44217 ELSE 31412]]

Oracles == {Oracle(12341, 12344, 0 - 5003), Oracle(0 - 5003, 12341, 12344),
            Oracle(90001, 12, 99998), Oracle(12, 99998, 90001)}

World(fail, layout, cT, cA, cB, cC, orc) ==
    [fail |-> fail, layout |-> layout, corr |-> orc,
     hist |-> [s \in Sids |-> CASE s = "T" -> cT [] s = "A" -> cA
                                [] s = "B" -> cB [] OTHER -> cC]]

Orc0 == Oracle(12341, 12344, 0 - 5003)
World0 == World(FALSE, "asc", Cov(0, 150), Cov(0, 130), Cov(0, 50), Cov(0, 15), Orc0)
FailWorld == [World0 EXCEPT !.fail = TRUE]

TargetCovers ==
    {Omitted, AllNaN, Cov(0, 19), Cov(0, 30), Cov(0, 150), Flat(0, 150, 333, Err333)}
CandidateCovers ==
    {Omitted, AllNaN, Cov(0, 15), Cov(0, 19), Cov(0, 20), Cov(20, 30), Cov(0, 59),
     Cov(0, 60), Cov(0, 119), Cov(0, 120), Cov(0, 130), Flat(0, 130, 620, NoErr),
     Flat(0, 130, 617, Err617), Flat(0, 130, 613, Err613), Flat(0, 30, 615, NoErr)}

\* worlds that vary how much history the target and a candidate share
PresenceWorlds ==
    {World(FALSE, "asc", cT, cA, Cov(0, 50), Cov(0, 15), Orc0) :
        cT \in TargetCovers, cA \in CandidateCovers}

\* worlds in which several candidates have a 120-day correlation
OrderWorlds ==
    {World(FALSE, "asc", Cov(0, 150), Cov(0, 130), cB, cC, orc) :
        cB \in {Cov(0, 130), Cov(0, 50)},
        cC \in {Cov(0, 125), Flat(0, 125, 620, NoErr), Flat(0, 125, 617, Err617)},
        orc \in Oracles}

RankCalls ==
    {[w |-> w, target |-> "T", codes |-> Some(u), limit |-> l] :
        w \in PresenceWorlds,
        u \in {<<"A">>, <<"C", "A", "B">>, <<"C">>, <<"T", "A">>},
        l \in {NaN, Some(1)}}
    \cup
    {[w |-> w, target |-> "T", codes |-> Some(u), limit |-> l] :
        w \in OrderWorlds,
        u \in {<<"A", "B", "C">>, <<"C", "B", "A">>, <<"B", "A", "A">>},
        l \in {NaN, Some(2)}}
    \cup
    {[w |-> w, target |-> t, codes |-> u, limit |-> l] :
        w \in {World0, FailWorld,
               World(FALSE, "desc", Cov(0, 30), Cov(0, 25), Cov(0, 50), Cov(0, 15), Orc0)},
        t \in {"T", "C"},
        u \in {NaN, Some(<<>>), Some(<<"T">>), Some(<<"A", "B">>)},
        l \in {NaN, Some(0), Some(1), Some(0 - 1), Some(0 - 2)}}

PairCovers ==
    {Omitted, AllNaN, Cov(0, 9), Cov(0, 10), Cov(0, 19), Cov(0, 20), Cov(0, 59),
     Cov(0, 60), Cov(0, 119), Cov(0, 120), Cov(0, 130)}

Horizons == {1, 5, 9, 10, 19, 20, 60, 120}

CompareCalls ==
    {[w |-> World(FALSE, "asc", Omitted, cA, cB, Omitted, Orc0),
      sid1 |-> pr[1], sid2 |-> pr[2], days |-> h] :
        cA \in PairCovers, cB \in {Cov(0, 130), Cov(5, 100)},
        pr \in {<<"A", "B">>, <<"B", "A">>}, h \in Horizons}
    \cup
    {[w |-> World(FALSE, "asc", Omitted, Cov(0, 330), cB, Omitted, Orc0),
      sid1 |-> pr[1], sid2 |-> pr[2], days |-> 400] :
        cB \in {Cov(0, 330), Cov(0, 270)}, pr \in {<<"A", "B">>, <<"B", "A">>}}
    \cup
    {[w |-> World(FALSE, "asc", Omitted, cA, Cov(0, 130), Omitted, Orc0),
      sid1 |-> pr[1], sid2 |-> pr[2], days |-> h] :
        cA \in {Cov(0, 130), Cov(0, 12)}, pr \in {<<"A", "B">>, <<"B", "A">>},
        h \in {0 - 125, 0 - 5, 0}}
    \cup
    {[w |-> w, sid1 |-> "A", sid2 |-> "T", days |-> h] :
        w \in {FailWorld,
               World(FALSE, "desc", Cov(0, 30), Cov(0, 25), Cov(0, 50), Cov(0, 15), Orc0)},
        h \in Horizons}

FetchCalls ==
    {[w |-> w, sids |-> ss, days_back |-> db] :
        w \in {World0, FailWorld,
               World(FALSE, "asc", Cov(0, 150), AllNaN, Omitted, Cov(0, 15), Orc0),
               World(FALSE, "asc", AllNaN, AllNaN, Omitted, Omitted, Orc0),
               World(FALSE, "desc", Cov(0, 30), Cov(10, 25), Cov(0, 50), Cov(0, 15), Orc0)},
        ss \in {<<>>, <<"A">>, <<"B">>, <<"T", "A">>, <<"A", "B">>, <<"B", "A", "C">>,
                <<"T", "C", "A">>},
        db \in {MinDaysBack, RankDaysBack}}

\* ------------------------------------------------------------------------
\* The operations
\* ------------------------------------------------------------------------
Fetch ==
    /\ op = "idle"
    /\ \E c \in FetchCalls :
        LET r == fetch_stocks_prices(c.w, c.sids, c.days_back)
        IN /\ op' = "fetch"
           /\ args' = [sids |-> c.sids, days_back |-> c.days_back]
           /\ world' = c.w
           /\ result' = r
           /\ requests' = r.requests
    /\ UNCHANGED schedVars

Rank ==
    /\ op = "idle"
    /\ \E c \in RankCalls :
        \E r \in calculate_correlations(c.w, c.target, c.codes, c.limit) :
           /\ op' = "rank"
           /\ args' = [target |-> c.target, codes |-> c.codes, limit |-> c.limit]
           /\ world' = c.w
           /\ result' = r
           /\ requests' = r.requests
    /\ UNCHANGED schedVars

Compare ==
    /\ op = "idle"
    /\ \E c \in CompareCalls :
        LET r == get_two_stocks_comparison(c.w, c.sid1, c.sid2, c.days)
        IN /\ op' = "compare"
           /\ args' = [sid1 |-> c.sid1, sid2 |-> c.sid2, days |-> c.days]
           /\ world' = c.w
           /\ result' = r
           /\ requests' = r.requests
    /\ UNCHANGED schedVars

\* the caller is done with the outcome: nothing is kept between requests
Return ==
    /\ op # "idle"
    /\ op' = "idle"
    /\ args' = <<>>
    /\ world' = World0
    /\ result' = <<>>
    /\ requests' = 0
    /\ UNCHANGED schedVars

DataInit ==
    /\ op = "idle"
    /\ args = <<>>
    /\ world = World0
    /\ result = <<>>
    /\ requests = 0

Init == DataInit /\ SchedInit

Next == Fetch \/ Rank \/ Compare \/ Return

Spec == Init /\ [][Next]_vars

SpecSched == Init /\ [][SchedNext]_vars

\* ------------------------------------------------------------------------
\* What the provider holds, read off the world (not off the operations)
\* ------------------------------------------------------------------------
\* the days of the request window on which both instruments have a close, in
\* ascending order; none when the batch request fails
SharedDays(w, s1, s2, days_back) ==
    IF w.fail THEN <<>>
    ELSE SelectSeq([i \in 1..(days_back + 1) |-> Today - days_back + i - 1],
                   LAMBDA d : HasClose(w, s1, d) /\ HasClose(w, s2, d))

\* the closes of an instrument over the given days do not vary
ConstantOver(w, sid, days) ==
    \A i \in 1..Len(days) : Price(w, sid, days[i]) = Price(w, sid, days[1])

\* the rounding error of the float mean of the closes of an instrument that
\* do not vary over the win given days: none for a binary fraction, else what
\* the world holds for that many copies
MeanErrorOver(w, sid, win, days) ==
    IF Price(w, sid, days[1]) % 5 = 0 THEN 0 ELSE w.hist[sid].err[win]

\* the closes of an instrument over the win given days have a float variance
\* of exactly 0: they do not vary, and their float mean is exact
ZeroVarianceOver(w, sid, win, days) ==
    /\ ConstantOver(w, sid, days)
    /\ MeanErrorOver(w, sid, win, days) = 0

\* the candidates of a ranking call: the universe cut to the limit, without
\* the target
Candidates == SelectSeq(Limited(args.codes, args.limit), LAMBDA s : s # args.target)

RankShared(sid) == SharedDays(world, args.target, sid, RankDaysBack)
TargetObs == Len(SharedDays(world, args.target, args.target, RankDaysBack))

PairDaysBack == Max(MinDaysBack, args.days + DaysBuffer)
PairShared == SharedDays(world, args.sid1, args.sid2, PairDaysBack)

RowsOf(sid) == {i \in 1..Len(result.rows) : result.rows[i].rec.sid = sid}

\* ------------------------------------------------------------------------
\* Claims
\* ------------------------------------------------------------------------

\* C1: calculate_correlations never raises; when the target has at least 20
\* observations and every candidate is excluded it returns an empty result.
C1_RankIsTotal ==
    op = "rank" =>
        /\ ~result.raised
        /\ (TargetObs >= W20 /\ (\A k \in 1..Len(Candidates) :
                                    Len(RankShared(Candidates[k])) < W20)
              => result.rows = <<>>)

\* C2 as stated: a moving-average column of window W is included iff the full
\* joined series (before the cut to the horizon) has at least W observations.
C2_MaOverFullSeries ==
    (op = "compare" /\ args.days >= 1 /\ ~result.absent) =>
        \A win \in SeqToSet(MaWindows) :
            win \in result.merged.mas <=> Len(PairShared) >= win

\* C2 amended: for horizon_days >= 1 the moving averages are computed over
\* the series already cut to the most recent horizon_days observations:
\* window W is included iff
\* min(horizon_days, joined size) >= W, its value is missing on the first
\* W - 1 displayed dates, and on every later date it is the mean of the W
\* displayed ratios that end on that date.
C2_MaOverCutSeries ==
    (op = "compare" /\ args.days >= 1 /\ ~result.absent) =>
        \A win \in SeqToSet(MaWindows) :
            /\ win \in result.merged.mas <=> Min(args.days, Len(PairShared)) >= win
            /\ win \in result.merged.mas =>
                 /\ \A k \in 1..Len(result.merged.rows) :
                       IsNaN(result.merged.rows[k].ma[win]) <=> k < win
                 /\ \A n \in win..Len(result.merged.rows) :
                       LET sum == RatSum([k \in 1..n |-> result.merged.rows[k].ratio],
                                         n - win + 1, n)
                           v == result.merged.rows[n].ma[win][1]
                       IN v.num * sum.den * win = sum.num * v.den

\* a 20-day display of two instruments that share 120 days or more shows
\* the 20-day average only
C2_Witness ==
    /\ op = "compare"
    /\ ~result.absent
    /\ args.days = W20
    /\ Len(PairShared) >= W120
    /\ result.merged.mas = {W20}
    /\ ~IsNaN(result.merged.rows[W20].ma[W20])

\* C3: fetching two or more identifiers, one of which the provider has no
\* data for, yields no key for it; every key maps to a non-empty series and
\* the identifiers that have data are returned.
C3_NoKeyWithoutData ==
    (op = "fetch" /\ Len(args.sids) >= 2 /\ ~world.fail) =>
        \A sid \in SeqToSet(args.sids) :
            /\ sid \in DOMAIN result.prices <=>
                  Len(SharedDays(world, sid, sid, args.days_back)) > 0
            /\ sid \in DOMAIN result.prices => result.prices[sid] # <<>>

\* C4 as stated: with a target of 20 observations or more, a candidate has a
\* record iff it shares n >= 20 dates with the target, and in the record the
\* 20-day value is present, the 60-day value iff n >= 60, the 120-day value
\* iff n >= 120.
C4_PresenceByOverlap ==
    (op = "rank" /\ TargetObs >= W20) =>
        \A k \in 1..Len(Candidates) :
            LET sid == Candidates[k]
                n == Len(RankShared(sid))
            IN /\ RowsOf(sid) # {} <=> n >= W20
               /\ \A i \in RowsOf(sid) :
                     /\ ~IsNaN(result.rows[i].rec.c20)
                     /\ ~IsNaN(result.rows[i].rec.c60) <=> n >= W60
                     /\ ~IsNaN(result.rows[i].rec.c120) <=> n >= W120

\* C4 amended: a candidate has a record iff n >= 20, and in the record the
\* value of window W (20, 60, 120) is missing when n < W; when n >= W it is
\* present unless the computed variance of the target's or of the candidate's
\* closes over the last W shared dates is exactly 0 (closes that do not vary
\* and whose float mean over W values is exact), and then it is missing;
\* closes that do not vary but whose float mean over W values is inexact give
\* a present value: 0 when the other leg varies, 1 or -1 (the product of the
\* signs of the two rounding errors) when the other leg is of that kind too.
C4_PresenceByOverlapAndVariance ==
    (op = "rank" /\ TargetObs >= W20) =>
        \A k \in 1..Len(Candidates) :
            LET sid == Candidates[k]
                shared == RankShared(sid)
                n == Len(shared)
                undefined(win) ==
                    \/ ZeroVarianceOver(world, args.target, win, TailN(shared, win))
                    \/ ZeroVarianceOver(world, sid, win, TailN(shared, win))
                flatT(win) == ConstantOver(world, args.target, TailN(shared, win))
                flatS(win) == ConstantOver(world, sid, TailN(shared, win))
                value(i, win) == IF win = W20 THEN result.rows[i].rec.c20
                                 ELSE IF win = W60 THEN result.rows[i].rec.c60
                                 ELSE result.rows[i].rec.c120
            IN /\ RowsOf(sid) # {} <=> n >= W20
               /\ \A i \in RowsOf(sid) : \A win \in SeqToSet(MaWindows) :
                     /\ n < win => IsNaN(value(i, win))
                     /\ n >= win => (IsNaN(value(i, win)) <=> undefined(win))
                     /\ (n >= win /\ ~undefined(win) /\ flatT(win) # flatS(win))
                           => value(i, win) = Some(0)
                     /\ (n >= win /\ ~undefined(win) /\ flatT(win) /\ flatS(win))
                           => value(i, win) =
                                Some(10000
                                     * MeanErrorOver(world, args.target, win,
                                                     TailN(shared, win))
                                     * MeanErrorOver(world, sid, win, TailN(shared, win)))

\* a candidate that shares 120 dates or more with the target and whose close
\* (62.0, exact mean) does not vary is ranked with its three values missing
C4_Witness ==
    /\ op = "rank"
    /\ TargetObs >= W20
    /\ \E k \in 1..Len(Candidates) :
          LET sid == Candidates[k]
              shared == RankShared(sid)
          IN /\ Len(shared) >= W120
             /\ \A win \in SeqToSet(MaWindows) :
                   ZeroVarianceOver(world, sid, win, TailN(shared, win))
             /\ ~ConstantOver(world, args.target, TailN(shared, W20))
             /\ \E i \in RowsOf(sid) :
                   /\ IsNaN(result.rows[i].rec.c20)
                   /\ IsNaN(result.rows[i].rec.c60)
                   /\ IsNaN(result.rows[i].rec.c120)

\* C5: the records are in descending order of the 120-day correlation,
\* records with equal 120-day correlation keep the order of the universe,
\* and the rank of a record is its position.
C5_SortedStableRanked ==
    (op = "rank" /\ ~result.raised) =>
        /\ \A i \in 1..Len(result.rows) : result.rows[i].rank = i
        /\ \A i, j \in 1..Len(result.rows) : i < j =>
              /\ ~Before(result.rows[j].rec.c120, result.rows[i].rec.c120)
              /\ (result.rows[i].rec.c120 = result.rows[j].rec.c120
                    => result.rows[i].index < result.rows[j].index)

\* C6 as stated: the result is all-absent when fewer than 10 dates are
\* shared, and present for every horizon_days >= 1 when 10 or more are.
C6_TenBeforeCut ==
    (op = "compare" /\ args.days >= 1) =>
        (result.absent <=> Len(PairShared) < MinPairObs)

\* C6 amended: the 10-observation test is applied after the cut to the most
\* recent horizon_days observations: the result is all-absent iff
\* min(horizon_days, shared dates) < 10 (a series missing from the mapping
\* shares no date), and then all four outputs are absent.
C6_TenAfterCut ==
    (op = "compare" /\ args.days >= 1) =>
        /\ result.absent <=> Min(args.days, Len(PairShared)) < MinPairObs
        /\ result.absent => DOMAIN result = {"raised", "requests", "absent"}
        /\ ~result.absent => Len(result.merged.rows) = Min(args.days, Len(PairShared))

\* a horizon under 10 days gives the all-absent result although 10 dates or
\* more are shared
C6_Witness ==
    /\ op = "compare"
    /\ args.days >= 1
    /\ args.days < MinPairObs
    /\ Len(PairShared) >= MinPairObs
    /\ result.absent

\* C7: for H >= 1 the detail table has min(H, joined size) date columns,
\* one per
\* surviving date, newest first, each holding the values of its own date,
\* and the rows are in the fixed order.
C7_DetailColumns ==
    (op = "compare" /\ args.days >= 1 /\ ~result.absent) =>
        LET n == Min(args.days, Len(PairShared))
            dates == Reverse(TailN(PairShared, args.days))
        IN /\ Len(result.detail.cols) = n
           /\ \A k \in 1..Len(result.detail.cols) :
                 /\ result.detail.cols[k].label = MonthDay(dates[k])
                 /\ result.detail.cols[k].vals[1] = Some(Price(world, args.sid1, dates[k]))
                 /\ result.detail.cols[k].vals[2] = Some(Price(world, args.sid2, dates[k]))
           /\ [k \in 1..5 |-> result.detail.types[k].kind]
                = <<"price", "price", "change", "change", "ratio">>
           /\ [k \in 1..Len(result.detail.types) - 5 |-> result.detail.types[k + 5].kind]
                = SelectSeq(<<"ma20", "ma60", "ma120">>,
                            LAMBDA m : \E win \in result.merged.mas :
                               m = (CASE win = W20 -> "ma20" [] win = W60 -> "ma60"
                                      [] OTHER -> "ma120"))

\* C8: compare_pair(A, B, h) and compare_pair(B, A, h) over one price
\* history are mirror images: absent together, the same dates in the same
\* order, the price legs swapped, the ratios reciprocal.
C8_MirrorImage ==
    op = "compare" =>
        \E m \in {get_two_stocks_comparison(world, args.sid2, args.sid1, args.days)} :
            /\ m.absent = result.absent
            /\ ~result.absent =>
                 /\ Len(m.merged.rows) = Len(result.merged.rows)
                 /\ \A k \in 1..Len(result.merged.rows) :
                       /\ m.merged.rows[k].date = result.merged.rows[k].date
                       /\ m.merged.rows[k].a = result.merged.rows[k].b
                       /\ m.merged.rows[k].b = result.merged.rows[k].a
                       /\ m.merged.rows[k].ratio.num = result.merged.rows[k].ratio.den
                       /\ m.merged.rows[k].ratio.den = result.merged.rows[k].ratio.num
                       /\ m.price_df[k].a = result.price_df[k].b
                       /\ m.ratio_df[k].date = result.ratio_df[k].date

\* a present comparison with a ratio other than 1
C8_Witness ==
    /\ op = "compare"
    /\ ~result.absent
    /\ \E k \in 1..Len(result.merged.rows) :
          result.merged.rows[k].ratio.num > result.merged.rows[k].ratio.den

\* C9: when the batch request fails, fetch returns the empty mapping without
\* raising after exactly one request, the ranking returns an empty result
\* and the comparison the all-absent result, the same outcomes as when the
\* provider has no data at all.
NoDataWorld == World(FALSE, "asc", Omitted, Omitted, Omitted, Omitted, Orc0)

C9_BatchFailureIsNoData ==
    /\ op # "idle" => requests <= 1
    /\ (op = "fetch" /\ world.fail /\ args.sids # <<>>) =>
          /\ ~result.raised
          /\ DOMAIN result.prices = {}
          /\ requests = 1
          /\ result = fetch_stocks_prices(NoDataWorld, args.sids, args.days_back)
    /\ (op = "rank" /\ world.fail) =>
          /\ ~result.raised
          /\ result.rows = <<>>
          /\ {result} = calculate_correlations(NoDataWorld, args.target, args.codes,
                                               args.limit)
    /\ (op = "compare" /\ world.fail) =>
          /\ ~result.raised
          /\ result.absent
          /\ requests = 1
          /\ result = get_two_stocks_comparison(NoDataWorld, args.sid1, args.sid2,
                                                args.days)

\* a ranking whose one batch request failed
C9_Witness ==
    /\ op = "rank"
    /\ world.fail
    /\ requests = 1
    /\ result.rows = <<>>

\* the sum of a count over the module objects
RECURSIVE TotalUpTo(_, _)
TotalUpTo(f, m) == IF m = 0 THEN 0 ELSE f[m] + TotalUpTo(f, m - 1)
Total(f) == TotalUpTo(f, MaxExecutions)

PastCheck(t) == pc[t] \in {"set", "release", "create", "add_job", "start"}

====
